---- MODULE Spec2Model ----
(***************************************************************************)
(* Vietnamese text normalisation for TTS                                   *)
(* (src/src/chatterbox/models/tokenizers/vietnamese.py).                   *)
(*                                                                         *)
(* A Python str is modelled as the sequence of its Unicode code points     *)
(* (ord() of each character), so that character classes, NFC composition,  *)
(* regular-expression matching and string building are computed, not       *)
(* assumed.  Character-class operators are exact on the code points        *)
(* 0..879, 7680..7935 and 9786 (Basic Latin to Combining Diacritical       *)
(* Marks, Latin Extended Additional, and U+263A); every input alphabet     *)
(* below lies inside that range.                                           *)
(***************************************************************************)
EXTENDS Integers, Sequences, FiniteSets, TLC

VARIABLES
    pc,                 \* position of the driver that calls the operation
    text,               \* the str argument of the text operations
    flag,               \* expand_abbreviations argument of vietnamese_normalize
    expanded,           \* text after line 93 of vietnamese_normalize (steps 1-2)
    out,                \* value returned by the first call
    out2,               \* value returned by the second call (idempotence)
    num,                \* the int argument of number_to_vietnamese
    stack,              \* call stack of number_to_vietnamese: frames [n, todo]
    maxDepth,           \* deepest nesting of recursive calls seen so far
    lastCall,           \* <<caller argument, callee argument>> of the last call
    HAS_UNDERTHESEA,    \* module global, line 221/223
    vn_word_tokenize,   \* module global, line 220/224: "fn" or "None"
    imports,            \* number of executions of the import statement
    outcome,            \* last segment_words: what the capability did (kind),
                        \* its return value (result), what f"{e}" did
                        \* (detail), warnings logged (logged)
    invoked,            \* capability invocations made by the last segment_words
    warnings,           \* number of records written by logger.warning
    propagated          \* TRUE when the last segment_words raised to its caller

vars == <<pc, text, flag, expanded, out, out2, num, stack, maxDepth, lastCall,
          HAS_UNDERTHESEA, vn_word_tokenize, imports, outcome, invoked,
          warnings, propagated>>

textVars == <<text, flag, expanded, out, out2>>
numVars == <<num, stack, maxDepth, lastCall>>
segVars == <<HAS_UNDERTHESEA, vn_word_tokenize, imports, outcome, invoked,
             warnings, propagated>>

(***************************************************************************)
(* Bounds of the model.                                                    *)
(***************************************************************************)
MaxNormLen == 4
MaxExpandLen == 4
MaxTtsLen == 3
MaxValidateLen == 3
MaxSmall == 1200
MaxSegLen == 2
MaxWarnings == 3

(***************************************************************************)
(* Generic sequence helpers.                                               *)
(***************************************************************************)
RECURSIVE StringsUpTo(_, _)
StringsUpTo(alphabet, n) ==
    IF n = 0 THEN {<<>>}
    ELSE LET shorter == StringsUpTo(alphabet, n - 1)
         IN  shorter \cup {Append(s, c) : s \in {t \in shorter : Len(t) = n - 1},
                                          c \in alphabet}

RECURSIVE Concat(_)
Concat(seqs) ==
    IF seqs = <<>> THEN <<>> ELSE Head(seqs) \o Concat(Tail(seqs))

(***************************************************************************)
(* Character classes.                                                      *)
(***************************************************************************)
\* str.isascii()
isascii(c) == c < 128

\* str.isspace(), which is also what str.split() and the regex class \s use
isspace(c) ==
    c \in (9..13) \cup (28..32) \cup {133, 160, 5760} \cup (8192..8202)
          \cup {8232, 8233, 8239, 8287, 12288}

\* VIETNAMESE_CHARS: the vowels with every tone mark, and d-with-stroke
VIETNAMESE_CHARS ==
    {65, 69, 73, 79, 85, 89, 97, 101, 105, 111, 117, 121}
    \cup (192..195) \cup (200..202) \cup (204..205) \cup (210..213)
    \cup (217..218) \cup {221} \cup (224..227) \cup (232..234)
    \cup (236..237) \cup (242..245) \cup (249..250) \cup {253}
    \cup (258..259) \cup (272..273) \cup (296..297) \cup (360..361)
    \cup (416..417) \cup (431..432) \cup (7840..7929)

\* the literal ' .,!?;:\'"()-' of line 102
KEPT_PUNCTUATION == {32, 46, 44, 33, 63, 59, 58, 39, 34, 40, 41, 45}

\* unicodedata.category(c).startswith('L'); str.isalpha() is the same class
isalpha(c) ==
    c \in (65..90) \cup (97..122) \cup {170, 181, 186} \cup (192..214)
          \cup (216..246) \cup (248..705) \cup (710..721) \cup (736..740)
          \cup {748, 750} \cup (7680..7935)

\* the regex class \d
isdigit(c) == c \in 48..57

\* the regex class \w: str.isalnum() or underscore
isword(c) ==
    isalpha(c) \/ isdigit(c) \/ c = 95 \/ c \in {178, 179, 185, 188, 189, 190}

\* re.IGNORECASE on the letters of the abbreviation literals: upper and
\* lower case match each other, and U+017F (long s) matches s and S
casefold(c) ==
    IF c \in 65..90 THEN c + 32 ELSE IF c = 383 THEN 115 ELSE c

(***************************************************************************)
(* unicodedata.normalize('NFC', text), line 85.                            *)
(* Canonical composition of a starter with the combining acute accent      *)
(* U+0301 (769), the one combining mark of the input alphabets.  A mark    *)
(* composes with the starter directly before it when UnicodeData has a     *)
(* primary composite for the pair; a mark that follows an uncomposed mark  *)
(* is blocked (same combining class 230).  Exact for texts in which        *)
(* U+0301 is the only combining mark and follows no letter other than      *)
(* a, A, e, o, p, P or a letter that has no composite with it.             *)
(***************************************************************************)
\* <<starter, composite>> for the mark U+0301
ACUTE_COMPOSITES ==
    { <<97, 225>>, <<65, 193>>, <<112, 7765>>, <<80, 7764>>,
      <<101, 233>>, <<111, 243>> }

HasComposite(b) == \E p \in ACUTE_COMPOSITES : p[1] = b

Composite(b) == (CHOOSE p \in ACUTE_COMPOSITES : p[1] = b)[2]

RECURSIVE NFCFrom(_, _, _)
NFCFrom(t, i, acc) ==
    IF i > Len(t) THEN acc
    ELSE IF t[i] = 769 /\ acc # <<>> /\ HasComposite(acc[Len(acc)])
         THEN NFCFrom(t, i + 1,
                      SubSeq(acc, 1, Len(acc) - 1) \o <<Composite(acc[Len(acc)])>>)
         ELSE NFCFrom(t, i + 1, Append(acc, t[i]))

NFC(t) == NFCFrom(t, 1, <<>>)

(***************************************************************************)
(* ABBREVIATIONS, lines 32-51, in insertion order.                         *)
(***************************************************************************)
ABBREVIATIONS ==
    << [abbr |-> <<116, 112, 46>>,                                \* tp.
        expansion |-> <<116, 104, 224, 110, 104, 32, 112, 104, 7889>>],
       [abbr |-> <<84, 80, 46>>,                                  \* TP.
        expansion |-> <<116, 104, 224, 110, 104, 32, 112, 104, 7889>>],
       [abbr |-> <<116, 104, 115, 46>>,                           \* ths.
        expansion |-> <<116, 104, 7841, 99, 32, 115, 297>>],
       [abbr |-> <<84, 104, 83, 46>>,                             \* ThS.
        expansion |-> <<116, 104, 7841, 99, 32, 115, 297>>],
       [abbr |-> <<116, 115, 46>>,                                \* ts.
        expansion |-> <<116, 105, 7871, 110, 32, 115, 297>>],
       [abbr |-> <<84, 83, 46>>,                                  \* TS.
        expansion |-> <<116, 105, 7871, 110, 32, 115, 297>>],
       [abbr |-> <<103, 115, 46>>,                                \* gs.
        expansion |-> <<103, 105, 225, 111, 32, 115, 432>>],
       [abbr |-> <<71, 83, 46>>,                                  \* GS.
        expansion |-> <<103, 105, 225, 111, 32, 115, 432>>],
       [abbr |-> <<112, 103, 115, 46>>,                           \* pgs.
        expansion |-> <<112, 104, 243, 32, 103, 105, 225, 111, 32, 115, 432>>],
       [abbr |-> <<80, 71, 83, 46>>,                              \* PGS.
        expansion |-> <<112, 104, 243, 32, 103, 105, 225, 111, 32, 115, 432>>],
       [abbr |-> <<113, 46>>,                                     \* q.
        expansion |-> <<113, 117, 7853, 110>>],
       [abbr |-> <<81, 46>>,                                      \* Q.
        expansion |-> <<113, 117, 7853, 110>>],
       [abbr |-> <<112, 46>>,                                     \* p.
        expansion |-> <<112, 104, 432, 7901, 110, 103>>],
       [abbr |-> <<80, 46>>,                                      \* P.
        expansion |-> <<112, 104, 432, 7901, 110, 103>>],
       [abbr |-> <<116, 120, 46>>,                                \* tx.
        expansion |-> <<116, 104, 7883, 32, 120, 227>>],
       [abbr |-> <<84, 88, 46>>,                                  \* TX.
        expansion |-> <<116, 104, 7883, 32, 120, 227>>],
       [abbr |-> <<116, 116, 46>>,                                \* tt.
        expansion |-> <<116, 104, 7883, 32, 116, 114, 7845, 110>>],
       [abbr |-> <<84, 84, 46>>,                                  \* TT.
        expansion |-> <<116, 104, 7883, 32, 116, 114, 7845, 110>>] >>

(***************************************************************************)
(* vietnamese_normalize, lines 69-110.                                     *)
(***************************************************************************)
\* re.escape(abbr) under re.IGNORECASE matches t at 1-based position i
LiteralAt(t, i, abbr) ==
    /\ i + Len(abbr) - 1 <= Len(t)
    /\ \A k \in 1..Len(abbr) : casefold(t[i + k - 1]) = casefold(abbr[k])

\* the pattern without its (?:^|(?<=\s)) prefix
BoundaryWithoutLookbehind(t, i) == TRUE

\* (?:^|(?<=\s)) at position i: the start of the string, or whitespace before
TokenBoundary(t, i) == i = 1 \/ isspace(t[i - 1])

\* the compiled pattern of line 92 matches at position i
PatternAt(t, i, abbr) == TokenBoundary(t, i) /\ LiteralAt(t, i, abbr)

\* pattern.sub(expansion, text), line 93: leftmost non-overlapping matches,
\* each looked for in the subject string t, scanning from position i
RECURSIVE SubFrom(_, _, _, _)
SubFrom(t, i, entry, acc) ==
    IF i > Len(t) THEN acc
    ELSE IF PatternAt(t, i, entry.abbr)
         THEN SubFrom(t, i + Len(entry.abbr), entry, acc \o entry.expansion)
         ELSE SubFrom(t, i + 1, entry, Append(acc, t[i]))

\* the loop of lines 89-93 from table entry k on
RECURSIVE ExpandFrom(_, _)
ExpandFrom(t, k) ==
    IF k > Len(ABBREVIATIONS) THEN t
    ELSE ExpandFrom(SubFrom(t, 1, ABBREVIATIONS[k], <<>>), k + 1)

ExpandAbbreviations(t) == ExpandFrom(t, 1)

\* ' '.join(text.split()), lines 96 and 209
RECURSIVE CollapseFrom(_, _, _)
CollapseFrom(t, i, acc) ==
    IF i > Len(t) THEN acc
    ELSE IF isspace(t[i]) THEN CollapseFrom(t, i + 1, acc)
         ELSE IF i > 1 /\ isspace(t[i - 1]) /\ acc # <<>>
              THEN CollapseFrom(t, i + 1, acc \o <<32, t[i]>>)
              ELSE CollapseFrom(t, i + 1, Append(acc, t[i]))

NormalizeWhitespace(t) == CollapseFrom(t, 1, <<>>)

\* the test of lines 102 and 104
Kept(c) ==
    \/ isascii(c) \/ c \in VIETNAMESE_CHARS \/ c \in KEPT_PUNCTUATION
    \/ isalpha(c)

\* the loop of lines 100-108
FilterChars(t) == SelectSeq(t, Kept)

\* str.strip(), line 110
RECURSIVE Strip(_)
Strip(t) ==
    IF t = <<>> THEN t
    ELSE IF isspace(t[1]) THEN Strip(Tail(t))
    ELSE IF isspace(t[Len(t)]) THEN Strip(SubSeq(t, 1, Len(t) - 1))
    ELSE t

\* lines 88-93 applied to the text as given, the NFC step of line 85 left out
CanonicalizeWithoutNFC(t, expand_abbreviations) ==
    IF expand_abbreviations THEN ExpandAbbreviations(t) ELSE t

\* lines 85-93: the text after canonicalisation and abbreviation expansion
Canonicalize(t, expand_abbreviations) ==
    IF expand_abbreviations THEN ExpandAbbreviations(NFC(t)) ELSE NFC(t)

vietnamese_normalize(t, expand_abbreviations) ==
    IF t = <<>> THEN t
    ELSE Strip(FilterChars(NormalizeWhitespace(
             Canonicalize(t, expand_abbreviations))))

(***************************************************************************)
(* Specification SpecNormalize: a caller normalises a text, then           *)
(* normalises the result again.                                            *)
(***************************************************************************)
\* space, p, t, '.', a, U+0301 combining acute, a-acute
NormAlphabet == {32, 112, 116, 46, 97, 769, 225}

NormExtraInputs ==
    { <<97, 32, 9786, 32, 112>>,                            \* "a ☺ p"
      <<9786, 112, 46>>,                                    \* "☺p."
      <<97, 116, 80, 46>>,                                  \* "atP."
      <<80, 769, 46, 32, 84, 112, 46>>,                     \* "P\u0301. Tp."
      <<272, 105, 32, 116, 112, 46, 32, 72, 67, 77>>,       \* "Đi tp. HCM"
      <<120, 116, 112, 46, 72, 67, 77>>,                    \* "xtp.HCM"
      <<9, 116, 112, 46, 10, 160, 81, 46, 49>>,             \* "\ttp.\n\xa0Q.1"
      <<80, 71, 83, 46, 32, 116, 383, 46>> }                \* "PGS. tſ."

\* every table literal alone, mid-word, after a space, doubled, and followed
\* by '.', by "p." and by "s."
AbbrevInputs ==
    UNION { { ABBREVIATIONS[k].abbr,
              <<120>> \o ABBREVIATIONS[k].abbr,
              <<97, 32>> \o ABBREVIATIONS[k].abbr,
              ABBREVIATIONS[k].abbr \o ABBREVIATIONS[k].abbr,
              ABBREVIATIONS[k].abbr \o <<46>>,
              ABBREVIATIONS[k].abbr \o <<112, 46>>,
              ABBREVIATIONS[k].abbr \o <<115, 46>> }
            : k \in 1..Len(ABBREVIATIONS) }

NormInputs ==
    StringsUpTo(NormAlphabet, MaxNormLen) \cup NormExtraInputs
    \cup AbbrevInputs

IdleNum == num = 0 /\ stack = <<>> /\ maxDepth = 0 /\ lastCall = <<>>

IdleSeg ==
    /\ HAS_UNDERTHESEA = FALSE /\ vn_word_tokenize = "None" /\ imports = 1
    /\ outcome = [kind |-> "none", result |-> <<>>, detail |-> "none",
                  logged |-> 0]
    /\ invoked = 0 /\ warnings = 0 /\ propagated = FALSE

InitNormalize ==
    /\ pc = "start"
    /\ text \in NormInputs
    /\ flag \in BOOLEAN
    /\ expanded = <<>> /\ out = <<>> /\ out2 = <<>>
    /\ IdleNum /\ IdleSeg

\* out = vietnamese_normalize(text, flag)
Normalize ==
    /\ pc = "start"
    /\ expanded' = (IF text = <<>> THEN text ELSE Canonicalize(text, flag))
    /\ out' = vietnamese_normalize(text, flag)
    /\ pc' = "normalized"
    /\ UNCHANGED <<text, flag, out2>>
    /\ UNCHANGED numVars /\ UNCHANGED segVars

\* out2 = vietnamese_normalize(out, flag)
NormalizeAgain ==
    /\ pc = "normalized"
    /\ out2' = vietnamese_normalize(out, flag)
    /\ pc' = "renormalized"
    /\ UNCHANGED <<text, flag, expanded, out>>
    /\ UNCHANGED numVars /\ UNCHANGED segVars

NextNormalize == Normalize \/ NormalizeAgain

SpecNormalize == InitNormalize /\ [][NextNormalize]_vars

(***************************************************************************)
(* Claims about vietnamese_normalize.                                      *)
(***************************************************************************)
\* C1: vietnamese_normalize is idempotent with expand_abbreviations = TRUE:
\* normalising the result of a first pass returns that result unchanged,
\* for every input.
C1_Idempotent ==
    (pc = "renormalized" /\ flag) => out2 = out

\* an abbreviation literal occurs in t at position i (case-insensitively)
SomeLiteralAt(t, i) ==
    \E k \in 1..Len(ABBREVIATIONS) :
        /\ i + Len(ABBREVIATIONS[k].abbr) - 1 <= Len(t)
        /\ \A j \in 1..Len(ABBREVIATIONS[k].abbr) :
              casefold(t[i + j - 1]) = casefold(ABBREVIATIONS[k].abbr[j])

FirstLiteralAt(t, i) ==
    ABBREVIATIONS[CHOOSE k \in 1..Len(ABBREVIATIONS) :
        /\ i + Len(ABBREVIATIONS[k].abbr) - 1 <= Len(t)
        /\ \A j \in 1..Len(ABBREVIATIONS[k].abbr) :
              casefold(t[i + j - 1]) = casefold(ABBREVIATIONS[k].abbr[j])
        /\ \A m \in 1..(k - 1) :
              ~ /\ i + Len(ABBREVIATIONS[m].abbr) - 1 <= Len(t)
                /\ \A j \in 1..Len(ABBREVIATIONS[m].abbr) :
                      casefold(t[i + j - 1]) = casefold(ABBREVIATIONS[m].abbr[j])]

\* position i of t is the start of t or directly follows whitespace
AtTokenBoundary(t, i) == i = 1 \/ isspace(t[i - 1])

\* t with exactly the literals that stand at a token boundary OF t replaced,
\* in one pass over t; every other character is copied
RECURSIVE ReplaceAtBoundaries(_, _)
ReplaceAtBoundaries(t, i) ==
    IF i > Len(t) THEN <<>>
    ELSE IF AtTokenBoundary(t, i) /\ SomeLiteralAt(t, i)
         THEN FirstLiteralAt(t, i).expansion
              \o ReplaceAtBoundaries(t, i + Len(FirstLiteralAt(t, i).abbr))
         ELSE <<t[i]>> \o ReplaceAtBoundaries(t, i + 1)

\* C2: with expand_abbreviations = TRUE the whole loop over the table
\* replaces a literal only where it stands at a token boundary of the
\* NFC-normalised input (start of string or after whitespace); a literal
\* that follows a non-whitespace character is copied unchanged, and no
\* replacement for one entry makes a later entry match elsewhere.
C2_BoundaryOnly ==
    (pc # "start" /\ flag /\ text # <<>>) =>
        expanded = ReplaceAtBoundaries(NFC(text), 1)

\* "p.p.": the first p. is expanded, the second (mid-word) is not
C2_Witness ==
    /\ pc = "normalized" /\ flag
    /\ text = <<112, 46, 112, 46>>
    /\ expanded = <<112, 104, 432, 7901, 110, 103, 112, 46>>

\* canonical decomposition of the composites of ACUTE_COMPOSITES
RECURSIVE NFD(_)
NFD(t) ==
    IF t = <<>> THEN <<>>
    ELSE (IF \E p \in ACUTE_COMPOSITES : p[2] = Head(t)
          THEN <<(CHOOSE p \in ACUTE_COMPOSITES : p[2] = Head(t))[1], 769>>
          ELSE <<Head(t)>>) \o NFD(Tail(t))

InVietnameseSet(c) == c \in VIETNAMESE_CHARS

RECURSIVE IsSubsequence(_, _)
IsSubsequence(s, t) ==
    IF s = <<>> THEN TRUE
    ELSE IF t = <<>> THEN FALSE
    ELSE IF Head(s) = Head(t) THEN IsSubsequence(Tail(s), Tail(t))
    ELSE IsSubsequence(s, Tail(t))

\* C8: the result for a text equals the result for its decomposed form and
\* for its composed (NFC) form, and the Vietnamese letters of the composed
\* form appear unchanged, in order, in the result (they are exactly the
\* Vietnamese letters of the result when no abbreviation is expanded).
C8_UnicodeStable ==
    pc = "normalized" =>
        /\ out = vietnamese_normalize(NFD(text), flag)
        /\ out = vietnamese_normalize(NFC(text), flag)
        /\ IsSubsequence(SelectSeq(NFC(text), InVietnameseSet),
                         SelectSeq(out, InVietnameseSet))
        /\ ~flag => SelectSeq(out, InVietnameseSet)
                      = SelectSeq(NFC(text), InVietnameseSet)

\* "a" + U+0301 + "á": decomposed and composed letters in one input
C8_Witness ==
    /\ pc = "normalized"
    /\ text = <<97, 769, 225>>
    /\ out = <<225, 225>>

(***************************************************************************)
(* NUMBER_WORDS, lines 54-66, and number_to_vietnamese, lines 113-165.     *)
(***************************************************************************)
\* NUMBER_WORDS[str(n)] is NUMBER_WORDS[n + 1] here, for n in 0..10
NUMBER_WORDS ==
    << <<107, 104, 244, 110, 103>>,      \* '0':  không
       <<109, 7897, 116>>,               \* '1':  một
       <<104, 97, 105>>,                 \* '2':  hai
       <<98, 97>>,                       \* '3':  ba
       <<98, 7889, 110>>,                \* '4':  bốn
       <<110, 259, 109>>,                \* '5':  năm
       <<115, 225, 117>>,                \* '6':  sáu
       <<98, 7843, 121>>,                \* '7':  bảy
       <<116, 225, 109>>,                \* '8':  tám
       <<99, 104, 237, 110>>,            \* '9':  chín
       <<109, 432, 7901, 105>> >>        \* '10': mười

\* str(num) for num >= 0, as the sequence of its digit values
RECURSIVE DecimalDigits(_)
DecimalDigits(n) ==
    IF n < 10 THEN <<n>> ELSE Append(DecimalDigits(n \div 10), n % 10)

\* ' '.join(NUMBER_WORDS.get(d, d) for d in str(num)), line 165
RECURSIVE JoinDigitWords(_)
JoinDigitWords(ds) ==
    IF Len(ds) = 1 THEN NUMBER_WORDS[ds[1] + 1]
    ELSE NUMBER_WORDS[ds[1] + 1] \o <<32>> \o JoinDigitWords(Tail(ds))

Lit(s) == [call |-> FALSE, lit |-> s, arg |-> 0]
Call(n) == [call |-> TRUE, lit |-> <<>>, arg |-> n]

\* lines 124-130 without the irregular form of lines 128-129
TeensPiecesWithoutLam(n) ==
    IF n = 10 THEN << Lit(<<109, 432, 7901, 105>>) >>
    ELSE << Lit(<<109, 432, 7901, 105, 32>>), Lit(NUMBER_WORDS[(n % 10) + 1]) >>

\* lines 124-130: 10 <= n < 20
TeensPieces(n) ==
    IF n = 10 THEN << Lit(<<109, 432, 7901, 105>>) >>             \* 'mười'
    ELSE IF n % 10 = 5
         THEN << Lit(<<109, 432, 7901, 105, 32, 108, 259, 109>>) >>
                                                                  \* 'mười lăm'
         ELSE << Lit(<<109, 432, 7901, 105, 32>>),                \* 'mười '
                 Lit(NUMBER_WORDS[(n % 10) + 1]) >>

\* lines 132-142: 20 <= n < 100
TensPieces(n) ==
    << Lit(NUMBER_WORDS[(n \div 10) + 1]),
       Lit(<<32, 109, 432, 417, 105>>) >>                         \* ' mươi'
    \o (IF n % 10 = 0 THEN << >>
        ELSE IF n % 10 = 1
             THEN << Lit(<<32, 109, 7889, 116>>) >>               \* ' mốt'
        ELSE IF n % 10 = 5
             THEN << Lit(<<32, 108, 259, 109>>) >>                \* ' lăm'
        ELSE << Lit(<<32>>), Lit(NUMBER_WORDS[(n % 10) + 1]) >>)

\* lines 144-152 with the call of line 152 made on num, not on remainder
HundredsPiecesOnNum(n) ==
    << Lit(NUMBER_WORDS[(n \div 100) + 1]),
       Lit(<<32, 116, 114, 259, 109>>) >>
    \o (IF n % 100 = 0 THEN << >>
        ELSE IF n % 100 < 10
             THEN << Lit(<<32, 108, 7867, 32>>),
                     Lit(NUMBER_WORDS[(n % 100) + 1]) >>
        ELSE << Lit(<<32>>), Call(n) >>)

\* lines 144-152: 100 <= n < 1000
HundredsPieces(n) ==
    << Lit(NUMBER_WORDS[(n \div 100) + 1]),
       Lit(<<32, 116, 114, 259, 109>>) >>                         \* ' trăm'
    \o (IF n % 100 = 0 THEN << >>
        ELSE IF n % 100 < 10
             THEN << Lit(<<32, 108, 7867, 32>>),                  \* ' lẻ '
                     Lit(NUMBER_WORDS[(n % 100) + 1]) >>
        ELSE << Lit(<<32>>), Call(n % 100) >>)

\* lines 154-162: 1000 <= n < 1000000
ThousandsPieces(n) ==
    << Call(n \div 1000),
       Lit(<<32, 110, 103, 104, 236, 110>>) >>                    \* ' nghìn'
    \o (IF n % 1000 = 0 THEN << >>
        ELSE IF n % 1000 < 100
             THEN << Lit(<<32, 107, 104, 244, 110, 103, 32,
                           116, 114, 259, 109, 32>>),       \* ' không trăm '
                     Call(n % 1000) >>
        ELSE << Lit(<<32>>), Call(n % 1000) >>)

\* The body of number_to_vietnamese(n) as the concatenation it returns:
\* string literals and table lookups (Lit), and recursive calls (Call), in
\* the order in which Python evaluates them.
Pieces(n) ==
    IF n < 0 THEN                                    \* lines 115-116
        << Lit(<<226, 109, 32>>), Call(-n) >>                     \* 'âm '
    ELSE IF n = 0 THEN                               \* lines 118-119
        << Lit(<<107, 104, 244, 110, 103>>) >>                    \* 'không'
    ELSE IF n < 10 THEN                              \* lines 121-122
        << Lit(NUMBER_WORDS[n + 1]) >>
    ELSE IF n < 20 THEN TeensPieces(n)
    ELSE IF n < 100 THEN TensPieces(n)
    ELSE IF n < 1000 THEN HundredsPieces(n)
    ELSE IF n < 1000000 THEN ThousandsPieces(n)
    ELSE                                             \* line 165
        << Lit(JoinDigitWords(DecimalDigits(n))) >>

\* number_to_vietnamese as a function: the value the call returns
RECURSIVE number_to_vietnamese(_)
RECURSIVE EvalPieces(_)
EvalPieces(ps) ==
    IF ps = <<>> THEN <<>>
    ELSE (IF Head(ps).call THEN number_to_vietnamese(Head(ps).arg)
          ELSE Head(ps).lit) \o EvalPieces(Tail(ps))

number_to_vietnamese(n) == EvalPieces(Pieces(n))

(***************************************************************************)
(* Specification SpecNumber: one call of number_to_vietnamese(num), run    *)
(* as Python runs it, one stack frame per active call.  A frame holds its  *)
(* argument n, the string built so far (acc) and the pieces still to be    *)
(* evaluated (todo); literals are appended as soon as they are reached, so *)
(* a waiting frame is always at a recursive call or at its return.         *)
(***************************************************************************)
RECURSIVE Advance(_)
Advance(f) ==
    IF f.todo # <<>> /\ ~Head(f.todo).call
    THEN Advance([f EXCEPT !.acc = f.acc \o Head(f.todo).lit,
                           !.todo = Tail(f.todo)])
    ELSE f

Frame(n) == Advance([n |-> n, acc |-> <<>>, todo |-> Pieces(n)])

NumSamples ==
    { 1999, 2000, 2005, 2015, 2100, 9999, 10000, 10001, 10010, 10100,
      15015, 21021, 99999, 100000, 100005, 105105, 110000, 999999,
      1000000, 1000001, 1234567, 9051005, 12345678 }

NumInputs ==
    (-MaxSmall..MaxSmall) \cup NumSamples \cup {-n : n \in NumSamples}

IdleText ==
    text = <<>> /\ flag = TRUE /\ expanded = <<>> /\ out2 = <<>>

InitNumber ==
    /\ pc = "running"
    /\ num \in NumInputs
    /\ stack = <<Frame(num)>>
    /\ maxDepth = 0
    /\ lastCall = <<>>
    /\ out = <<>>
    /\ IdleText /\ IdleSeg

Top == stack[Len(stack)]

\* the frame on top reaches a recursive call: a new frame is pushed
CallStep ==
    /\ pc = "running"
    /\ Top.todo # <<>>
    /\ stack' = Append(stack, Frame(Head(Top.todo).arg))
    /\ lastCall' = <<Top.n, Head(Top.todo).arg>>
    /\ maxDepth' = (IF Len(stack) > maxDepth THEN Len(stack) ELSE maxDepth)
    /\ UNCHANGED <<pc, num, out>>
    /\ UNCHANGED <<text, flag, expanded, out2>> /\ UNCHANGED segVars

\* the frame on top returns its string to the frame below it
ReturnStep ==
    /\ pc = "running"
    /\ Top.todo = <<>>
    /\ IF Len(stack) = 1
       THEN /\ out' = Top.acc
            /\ pc' = "done"
            /\ stack' = <<>>
       ELSE /\ stack' = Append(SubSeq(stack, 1, Len(stack) - 2),
                   Advance([stack[Len(stack) - 1] EXCEPT
                       !.acc = @ \o Top.acc,
                       !.todo = Tail(@)]))
            /\ UNCHANGED <<pc, out>>
    /\ UNCHANGED <<num, maxDepth, lastCall>>
    /\ UNCHANGED <<text, flag, expanded, out2>> /\ UNCHANGED segVars

NextNumber == CallStep \/ ReturnStep

SpecNumber == InitNumber /\ [][NextNumber]_vars

\* the interpreter always runs the next step of a call that has not returned
SpecNumberFair == SpecNumber /\ WF_vars(NextNumber)

(***************************************************************************)
(* Claims about number_to_vietnamese.                                      *)
(***************************************************************************)
\* words joined by single spaces
RECURSIVE JoinWords(_)
JoinWords(ws) ==
    IF ws = <<>> THEN <<>>
    ELSE IF Len(ws) = 1 THEN ws[1]
    ELSE ws[1] \o <<32>> \o JoinWords(Tail(ws))

\* the words the numeral grammar names
W_am == <<226, 109>>                   \* âm
W_khong == <<107, 104, 244, 110, 103>> \* không
W_muoi10 == <<109, 432, 7901, 105>>    \* mười
W_lam == <<108, 259, 109>>             \* lăm
W_muoi == <<109, 432, 417, 105>>       \* mươi
W_mot1 == <<109, 7889, 116>>           \* mốt
W_tram == <<116, 114, 259, 109>>       \* trăm
W_le == <<108, 7867>>                  \* lẻ
W_nghin == <<110, 103, 104, 236, 110>> \* nghìn

DigitWord(d) == NUMBER_WORDS[d + 1]

\* The numeral grammar, as the list of words of the phrase for n.
RECURSIVE GrammarWords(_)
GrammarWords(n) ==
    CASE n < 0 -> <<W_am>> \o GrammarWords(-n)
      [] n = 0 -> <<W_khong>>
      [] n \in 1..9 -> <<DigitWord(n)>>
      [] n = 10 -> <<W_muoi10>>
      [] n \in 11..19 ->
            <<W_muoi10, IF n - 10 = 5 THEN W_lam ELSE DigitWord(n - 10)>>
      [] n \in 20..99 ->
            <<DigitWord(n \div 10), W_muoi>>
            \o CASE n % 10 = 0 -> <<>>
                 [] n % 10 = 1 -> <<W_mot1>>
                 [] n % 10 = 5 -> <<W_lam>>
                 [] OTHER -> <<DigitWord(n % 10)>>
      [] n \in 100..999 ->
            <<DigitWord(n \div 100), W_tram>>
            \o CASE n % 100 = 0 -> <<>>
                 [] n % 100 \in 1..9 -> <<W_le, DigitWord(n % 100)>>
                 [] OTHER -> GrammarWords(n % 100)
      [] n \in 1000..999999 ->
            GrammarWords(n \div 1000) \o <<W_nghin>>
            \o CASE n % 1000 = 0 -> <<>>
                 [] n % 1000 \in 1..99 ->
                        <<W_khong, W_tram>> \o GrammarWords(n % 1000)
                 [] OTHER -> GrammarWords(n % 1000)
      [] OTHER ->
            [i \in 1..Len(DecimalDigits(n)) |-> DigitWord(DecimalDigits(n)[i])]

\* C3: for every input of every magnitude class the returned string is the
\* phrase of the numeral grammar (its words joined by single spaces), and
\* the spot checks 0, 15, 21, 105, 1000 and -7 return the stated strings.
C3_Grammar ==
    pc = "done" =>
        /\ out = JoinWords(GrammarWords(num))
        /\ num = 0 => out = <<107, 104, 244, 110, 103>>
        /\ num = 15 => out = <<109, 432, 7901, 105, 32, 108, 259, 109>>
        /\ num = 21 => out = <<104, 97, 105, 32, 109, 432, 417, 105, 32,
                               109, 7889, 116>>
        /\ num = 105 => out = <<109, 7897, 116, 32, 116, 114, 259, 109, 32,
                                108, 7867, 32, 110, 259, 109>>
        /\ num = 1000 => out = <<109, 7897, 116, 32, 110, 103, 104, 236, 110>>
        /\ num = -7 => out = <<226, 109, 32, 98, 7843, 121>>

\* number_to_vietnamese(1234567) has returned "một hai ba bốn năm sáu bảy"
C3_Witness ==
    /\ pc = "done"
    /\ num = 1234567
    /\ out = JoinWords(<<DigitWord(1), DigitWord(2), DigitWord(3), DigitWord(4),
                         DigitWord(5), DigitWord(6), DigitWord(7)>>)

NumDigits(n) == Len(DecimalDigits(IF n < 0 THEN -n ELSE n))

\* C10: every call terminates; the nesting depth of the recursive calls
\* (the calls number_to_vietnamese makes to itself, below the caller's own
\* call) is at most the number of decimal digits of the input; a recursive
\* call made for a non-negative argument has a strictly smaller
\* non-negative argument, and a negative argument n makes exactly one
\* call, on -n.
C10_Terminates ==
    /\ <>(pc = "done")
    /\ [](maxDepth <= NumDigits(num))
    /\ [](\A i \in 1..Len(stack) :
            stack[i].n < 0 =>
                Len(SelectSeq(Pieces(stack[i].n), LAMBDA p : p.call)) = 1)
    /\ [][(lastCall' # lastCall) =>
            IF lastCall'[1] >= 0
            THEN lastCall'[2] >= 0 /\ lastCall'[2] < lastCall'[1]
            ELSE lastCall'[2] = -lastCall'[1]]_vars

\* -999999 has returned after calls nested three deep
C10_Witness ==
    pc = "done" /\ num = -999999 /\ maxDepth = 3

(***************************************************************************)
(* expand_numbers, lines 168-179.                                          *)
(***************************************************************************)
\* int(num_str) for a run of ASCII digits
RECURSIVE IntValue(_)
IntValue(run) ==
    IF run = <<>> THEN 0
    ELSE IntValue(SubSeq(run, 1, Len(run) - 1)) * 10 + (run[Len(run)] - 48)

\* replace_number, lines 170-176; int() raises ValueError for a run longer
\* than the interpreter's limit of 4300 digits, and the run is then kept
replace_number(run) ==
    IF Len(run) > 4300 THEN run ELSE number_to_vietnamese(IntValue(run))

WordAt(t, i) == i >= 1 /\ i <= Len(t) /\ isword(t[i])

\* the pattern \d+ without its \b anchors
NoWordBoundary(t, i) == TRUE

\* \b between t[i-1] and t[i]: exactly one side is a word character
WordBoundary(t, i) == WordAt(t, i - 1) # WordAt(t, i)

\* the ends j (exclusive) of the matches of \b\d+\b that start at i
MatchEnds(t, i) ==
    IF ~WordBoundary(t, i) THEN {}
    ELSE { j \in (i + 1)..(Len(t) + 1) :
             /\ WordBoundary(t, j)
             /\ \A k \in i..(j - 1) : isdigit(t[k]) }

Max(S) == CHOOSE x \in S : \A y \in S : y <= x

\* re.sub(r'\b\d+\b', replace_number, text), line 179: \d+ is greedy, so
\* the match at i is the longest one
RECURSIVE SubNumbersFrom(_, _, _)
SubNumbersFrom(t, i, acc) ==
    IF i > Len(t) THEN acc
    ELSE LET ends == MatchEnds(t, i)
         IN  IF ends # {}
             THEN LET j == Max(ends)
                  IN  SubNumbersFrom(t, j,
                          acc \o replace_number(SubSeq(t, i, j - 1)))
             ELSE SubNumbersFrom(t, i + 1, Append(acc, t[i]))

expand_numbers(t) == SubNumbersFrom(t, 1, <<>>)

(***************************************************************************)
(* Specification SpecExpand: one call of expand_numbers(text).             *)
(***************************************************************************)
\* 0, 1, 5, a, space, underscore
ExpandAlphabet == {48, 49, 53, 97, 32, 95}

ExpandExtraInputs ==
    { <<73, 83, 79, 57, 48, 48, 49>>,                       \* "ISO9001"
      <<97, 49, 32, 49, 97, 32, 49, 53>>,                   \* "a1 1a 15"
      <<49, 48, 48, 48, 48, 48, 48, 32, 120>>,              \* "1000000 x"
      <<178, 53, 32, 53, 244>>,                             \* "²5 5ô"
      <<49, 46, 53, 32, 46, 48, 48, 55, 46>>,               \* "1.5 .007."
      <<116, 244, 105, 32, 99, 243, 32, 49, 53, 32, 99, 111, 110>> }
                                                            \* "tôi có 15 con"

\* '1' * 4301: one standalone run, one digit beyond what int() parses
LongRun == [k \in 1..4301 |-> 49]

ExpandInputs ==
    StringsUpTo(ExpandAlphabet, MaxExpandLen) \cup ExpandExtraInputs
    \cup {LongRun}

InitExpand ==
    /\ pc = "start"
    /\ text \in ExpandInputs
    /\ flag = TRUE /\ expanded = <<>> /\ out = <<>> /\ out2 = <<>>
    /\ IdleNum /\ IdleSeg

\* out = expand_numbers(text)
ExpandNumbers ==
    /\ pc = "start"
    /\ out' = expand_numbers(text)
    /\ pc' = "done"
    /\ UNCHANGED <<text, flag, expanded, out2>>
    /\ UNCHANGED numVars /\ UNCHANGED segVars

NextExpand == ExpandNumbers

SpecExpand == InitExpand /\ [][NextExpand]_vars

\* the last position of the maximal digit run that starts at i
RunEnd(t, i) ==
    CHOOSE e \in i..Len(t) :
        /\ e = Len(t) \/ t[e + 1] \notin 48..57
        /\ \A k \in (i + 1)..e : t[k] \in 48..57

\* a character that can be part of a word: letter, digit-like or underscore
WordCharacter(c) ==
    \/ c \in 48..57 \/ c = 95 \/ isalpha(c)
    \/ c \in {178, 179, 185, 188, 189, 190}

\* the run i..e has no word character on either side
Standalone(t, i, e) ==
    /\ i = 1 \/ ~WordCharacter(t[i - 1])
    /\ e = Len(t) \/ ~WordCharacter(t[e + 1])

\* the digits of t, in order
DigitsOf(t) == SelectSeq(t, LAMBDA c : c \in 48..57)

\* the digits of the maximal digit runs of t that are not standalone
RECURSIVE AdjacentDigits(_, _)
AdjacentDigits(t, i) ==
    IF i > Len(t) THEN <<>>
    ELSE IF t[i] \in 48..57
         THEN LET e == RunEnd(t, i)
              IN  (IF Standalone(t, i, e) THEN <<>> ELSE SubSeq(t, i, e))
                  \o AdjacentDigits(t, e + 1)
         ELSE AdjacentDigits(t, i + 1)

\* the longest maximal digit run of t
RECURSIVE LongestRun(_, _)
LongestRun(t, i) ==
    IF i > Len(t) THEN 0
    ELSE IF t[i] \in 48..57
         THEN LET e == RunEnd(t, i)
                  rest == LongestRun(t, e + 1)
              IN  IF e - i + 1 > rest THEN e - i + 1 ELSE rest
         ELSE LongestRun(t, i + 1)

\* t read run by run: every standalone maximal digit run becomes the phrase
\* of its value, every other character (digit or not) is copied
RECURSIVE EveryRun(_, _)
EveryRun(t, i) ==
    IF i > Len(t) THEN <<>>
    ELSE IF t[i] \in 48..57
         THEN LET e == RunEnd(t, i)
              IN  (IF Standalone(t, i, e)
                   THEN number_to_vietnamese(IntValue(SubSeq(t, i, e)))
                   ELSE SubSeq(t, i, e))
                  \o EveryRun(t, e + 1)
         ELSE <<t[i]>> \o EveryRun(t, i + 1)

\* t read run by run: a standalone maximal digit run of at most 4300 digits
\* becomes the phrase of its value, every other character (a digit of a
\* longer or of an adjacent run, or not a digit) is copied
RECURSIVE ByRuns(_, _)
ByRuns(t, i) ==
    IF i > Len(t) THEN <<>>
    ELSE IF t[i] \in 48..57
         THEN LET e == RunEnd(t, i)
              IN  (IF Standalone(t, i, e) /\ e - i + 1 <= 4300
                   THEN number_to_vietnamese(IntValue(SubSeq(t, i, e)))
                   ELSE SubSeq(t, i, e))
                  \o ByRuns(t, e + 1)
         ELSE <<t[i]>> \o ByRuns(t, i + 1)

\* C4: expand_numbers replaces a maximal run of decimal digits by
\* number_to_vietnamese of its value if and only if the run has a word
\* boundary on both sides (string start or end, or a non-word character);
\* a run adjacent to a letter is unchanged, and so is every character
\* outside the replaced runs.  A phrase has no digit, so the digits left in
\* the result are exactly those of the adjacent runs; where the values fit
\* the integers of the model (nine digits) the whole result is compared.
C4_StandaloneRuns ==
    pc = "done" =>
        /\ DigitsOf(out) = AdjacentDigits(text, 1)
        /\ LongestRun(text, 1) <= 9 => out = EveryRun(text, 1)

\* C4 as amended: the run is replaced if and only if it has a word boundary
\* on both sides and int() parses it, that is, it has at most 4300 digits;
\* a longer standalone run is unchanged, as are a run adjacent to a letter
\* and every character outside the replaced runs.
C4_ParseableRuns ==
    pc = "done" => out = ByRuns(text, 1)

\* "a1 1a 15": only the last run is standalone
C4_Witness ==
    /\ pc = "done"
    /\ text = <<97, 49, 32, 49, 97, 32, 49, 53>>
    /\ out = <<97, 49, 32, 49, 97, 32>>
             \o <<109, 432, 7901, 105, 32, 108, 259, 109>>

(***************************************************************************)
(* preprocess_for_tts, lines 190-215.                                      *)
(***************************************************************************)
\* the character class [.,!?;:] of line 208
SPACED_PUNCTUATION == {46, 44, 33, 63, 59, 58}

\* re.sub(r'([.,!?;:])', r' \1 ', text), line 208
RECURSIVE SpacePunctuation(_)
SpacePunctuation(t) ==
    IF t = <<>> THEN <<>>
    ELSE (IF Head(t) \in SPACED_PUNCTUATION THEN <<32, Head(t), 32>>
          ELSE <<Head(t)>>) \o SpacePunctuation(Tail(t))

\* str.islower() of one character, exact on 0..255, on VIETNAMESE_CHARS
\* and on 7840..7929
islower(c) ==
    \/ c \in (97..122) \cup {170, 181, 186, 223} \cup (224..246) \cup (248..255)
    \/ c \in {259, 273, 297, 361, 417, 432}
    \/ c \in 7840..7929 /\ c % 2 = 1

\* str.upper() of one lower-case character, on the same range
upper(c) ==
    IF c \in {170, 186} THEN <<c>>
    ELSE IF c = 181 THEN <<924>>
    ELSE IF c = 223 THEN <<83, 83>>
    ELSE IF c = 255 THEN <<376>>
    ELSE IF c \in (7840..7929) \cup {259, 273, 297, 361, 417, 432}
         THEN <<c - 1>>
    ELSE <<c - 32>>

\* lines 212-213
Capitalize(t) ==
    IF t # <<>> /\ islower(t[1]) THEN upper(t[1]) \o Tail(t) ELSE t

\* lines 201-213 without the second whitespace normalisation of line 209
preprocess_without_recollapse(t) ==
    Capitalize(SpacePunctuation(expand_numbers(vietnamese_normalize(t, TRUE))))

preprocess_for_tts(t) ==
    Capitalize(NormalizeWhitespace(SpacePunctuation(
        expand_numbers(vietnamese_normalize(t, TRUE)))))

(***************************************************************************)
(* Specification SpecTTS: one call of preprocess_for_tts(text).            *)
(***************************************************************************)
\* a, space, '.', '!', 5, o-circumflex, U+263A
TtsAlphabet == {97, 32, 46, 33, 53, 244, 9786}

TtsExtraInputs ==
    { <<116, 244, 105, 32, 99, 243, 32, 49, 53, 32, 99, 111, 110, 32,
        109, 232, 111, 46>>,                          \* "tôi có 15 con mèo."
      <<49, 9786, 97>>,                               \* "1☺a"
      <<116, 112, 46, 32, 49, 44, 53, 33>>,           \* "tp. 1,5!"
      <<97, 58, 59, 63, 98>> }                        \* "a:;?b"

TtsInputs == StringsUpTo(TtsAlphabet, MaxTtsLen) \cup TtsExtraInputs

InitTTS ==
    /\ pc = "start"
    /\ text \in TtsInputs
    /\ flag = TRUE /\ expanded = <<>> /\ out = <<>> /\ out2 = <<>>
    /\ IdleNum /\ IdleSeg

\* out = preprocess_for_tts(text)
Preprocess ==
    /\ pc = "start"
    /\ out' = preprocess_for_tts(text)
    /\ pc' = "done"
    /\ UNCHANGED <<text, flag, expanded, out2>>
    /\ UNCHANGED numVars /\ UNCHANGED segVars

NextTTS == Preprocess

SpecTTS == InitTTS /\ [][NextTTS]_vars

\* C5: in the result every . , ! ? ; : is an isolated token (a single space
\* separates it from each neighbour) and there is no leading, trailing or
\* doubled space; the stages run in the order normalize, expand_numbers,
\* punctuation spacing, capitalization, so a digit freed by the character
\* filter stays a digit ("1☺a" gives "1a"), a number word at the start is
\* capitalized ("5" gives "Năm") and the first character of the result is
\* never lower case; "tôi có 15 con mèo." gives "Tôi có mười lăm con mèo .".
C5_Pipeline ==
    pc = "done" =>
        /\ \A i \in 1..Len(out) :
              out[i] \in {46, 44, 33, 63, 59, 58} =>
                  /\ i = 1 \/ out[i - 1] = 32
                  /\ i = Len(out) \/ out[i + 1] = 32
        /\ \A i \in 1..Len(out) :
              out[i] = 32 => i # 1 /\ i # Len(out) /\ out[i + 1] # 32
        /\ out # <<>> => ~islower(out[1])
        /\ text = <<49, 9786, 97>> => out = <<49, 97>>
        /\ text = <<53>> => out = <<78, 259, 109>>
        /\ text = <<116, 244, 105, 32, 99, 243, 32, 49, 53, 32, 99, 111, 110,
                    32, 109, 232, 111, 46>>
           => out = <<84, 244, 105, 32, 99, 243, 32, 109, 432, 7901, 105, 32,
                      108, 259, 109, 32, 99, 111, 110, 32, 109, 232, 111,
                      32, 46>>

\* the end-to-end scenario has run
C5_Witness ==
    /\ pc = "done"
    /\ Len(text) = 18
    /\ out = <<84, 244, 105, 32, 99, 243, 32, 109, 432, 7901, 105, 32,
               108, 259, 109, 32, 99, 111, 110, 32, 109, 232, 111, 32, 46>>

(***************************************************************************)
(* validate_vietnamese_text, lines 182-187.                                *)
(***************************************************************************)
\* the test of line 185 with `or` in place of the first `and`
FlaggedLoose(c) == isalpha(c) \/ (c \notin VIETNAMESE_CHARS /\ ~isascii(c))

\* the test of line 185
Flagged(c) == isalpha(c) /\ c \notin VIETNAMESE_CHARS /\ ~isascii(c)

\* the loop of lines 184-187 from position i on
RECURSIVE ValidateFrom(_, _)
ValidateFrom(t, i) ==
    IF i > Len(t) THEN TRUE
    ELSE IF Flagged(t[i]) THEN FALSE
    ELSE ValidateFrom(t, i + 1)

validate_vietnamese_text(t) == ValidateFrom(t, 1)

(***************************************************************************)
(* Specification SpecValidate: one call of validate_vietnamese_text(text). *)
(***************************************************************************)
\* a, b, ., 1, space, n-tilde, o-circumflex-acute, p-acute, U+0301, U+263A
ValidateAlphabet == {97, 98, 46, 49, 32, 241, 7889, 7765, 769, 9786}

ValidateInputs == StringsUpTo(ValidateAlphabet, MaxValidateLen)

InitValidate ==
    /\ pc = "start"
    /\ text \in ValidateInputs
    /\ flag = TRUE /\ expanded = <<>> /\ out = TRUE /\ out2 = <<>>
    /\ IdleNum /\ IdleSeg

\* out = validate_vietnamese_text(text)
Validate ==
    /\ pc = "start"
    /\ out' = validate_vietnamese_text(text)
    /\ pc' = "done"
    /\ UNCHANGED <<text, flag, expanded, out2>>
    /\ UNCHANGED numVars /\ UNCHANGED segVars

NextValidate == Validate

SpecValidate == InitValidate /\ [][NextValidate]_vars

\* alphabetic, outside ASCII and outside the Vietnamese letter set
ForeignLetter(c) ==
    /\ c \in (170..705) \cup (710..750) \cup (7680..7935)
    /\ c \notin {215, 247} \cup (171..180) \cup (182..185) \cup (187..191)
                \cup (722..735) \cup (741..747) \cup {749}
    /\ c \notin VIETNAMESE_CHARS

\* C7: the result is FALSE exactly when the text has a character that is
\* alphabetic, not ASCII and not in the Vietnamese letter set; it is TRUE
\* for every other text, the empty one included.
C7_Validate ==
    pc = "done" =>
        (out = FALSE <=> \E i \in 1..Len(text) : ForeignLetter(text[i]))

\* "1ñ": one foreign letter after a digit
C7_Witness ==
    pc = "done" /\ text = <<49, 241>> /\ out = FALSE

(***************************************************************************)
(* Module load, lines 218-224, and segment_words, lines 227-238.           *)
(* Specification Spec: the module is loaded once, then segment_words is    *)
(* called any number of times.  The capability (underthesea's              *)
(* word_tokenize) is external: a call of it returns some text, raises an   *)
(* exception that is an instance of Exception, or raises one that is not   *)
(* (KeyboardInterrupt, SystemExit, GeneratorExit derive from               *)
(* BaseException only).  The exception object is external too: line 236    *)
(* formats it with f"{e}", which runs its __format__/__str__, and that     *)
(* returns the detail or raises in its turn.                               *)
(***************************************************************************)
\* a, space
SegAlphabet == {97, 32}

SegInputs == StringsUpTo(SegAlphabet, MaxSegLen)

\* texts the capability may return: syllables joined by underscores
SegResults == StringsUpTo({97, 95}, MaxSegLen)

\* lines 219-224: the import succeeds, or raises ImportError
Init ==
    /\ pc = "loaded"
    /\ \/ HAS_UNDERTHESEA = TRUE /\ vn_word_tokenize = "fn"
       \/ HAS_UNDERTHESEA = FALSE /\ vn_word_tokenize = "None"
    /\ imports = 1
    /\ outcome = [kind |-> "none", result |-> <<>>, detail |-> "none",
                  logged |-> 0]
    /\ invoked = 0 /\ warnings = 0 /\ propagated = FALSE
    /\ text = <<>> /\ out = <<>>
    /\ flag = TRUE /\ expanded = <<>> /\ out2 = <<>>
    /\ IdleNum

\* the test of line 232
Available == HAS_UNDERTHESEA /\ vn_word_tokenize # "None"

\* line 238: the capability is not called
SegmentUnavailable ==
    /\ ~Available
    /\ \E x \in SegInputs :
        /\ text' = x
        /\ out' = x
    /\ outcome' = [kind |-> "not called", result |-> <<>>, detail |-> "none",
                   logged |-> 0]
    /\ invoked' = 0
    /\ propagated' = FALSE
    /\ pc' = "called"
    /\ UNCHANGED <<HAS_UNDERTHESEA, vn_word_tokenize, imports, warnings>>
    /\ UNCHANGED <<flag, expanded, out2>> /\ UNCHANGED numVars

\* line 234: the capability returns r
SegmentReturns ==
    /\ Available
    /\ \E x \in SegInputs, r \in SegResults :
        /\ text' = x
        /\ out' = r
        /\ outcome' = [kind |-> "returned", result |-> r, detail |-> "none",
                       logged |-> 0]
    /\ invoked' = 1
    /\ propagated' = FALSE
    /\ pc' = "called"
    /\ UNCHANGED <<HAS_UNDERTHESEA, vn_word_tokenize, imports, warnings>>
    /\ UNCHANGED <<flag, expanded, out2>> /\ UNCHANGED numVars

\* lines 235-237 with the capability called a second time after the failure
SegmentCaughtWithRetry ==
    /\ Available
    /\ warnings < MaxWarnings
    /\ \E x \in SegInputs :
        /\ text' = x
        /\ out' = x
    /\ outcome' = [kind |-> "Exception", result |-> <<>>,
                   detail |-> "formatted", logged |-> 1]
    /\ invoked' = 2
    /\ warnings' = warnings + 1
    /\ propagated' = FALSE
    /\ pc' = "called"
    /\ UNCHANGED <<HAS_UNDERTHESEA, vn_word_tokenize, imports>>
    /\ UNCHANGED <<flag, expanded, out2>> /\ UNCHANGED numVars

\* lines 234-237: the capability raises an instance of Exception, which
\* `except Exception` catches; f"{e}" returns the detail: one warning, and
\* text is returned
SegmentCaught ==
    /\ Available
    /\ warnings < MaxWarnings
    /\ \E x \in SegInputs :
        /\ text' = x
        /\ out' = x
    /\ outcome' = [kind |-> "Exception", result |-> <<>>,
                   detail |-> "formatted", logged |-> 1]
    /\ invoked' = 1
    /\ warnings' = warnings + 1
    /\ propagated' = FALSE
    /\ pc' = "called"
    /\ UNCHANGED <<HAS_UNDERTHESEA, vn_word_tokenize, imports>>
    /\ UNCHANGED <<flag, expanded, out2>> /\ UNCHANGED numVars

\* lines 234-236: the capability raises an instance of Exception, which
\* `except Exception` catches; f"{e}" raises while the message is built,
\* before logger.warning is called and before line 237: nothing is logged,
\* segment_words returns nothing and the second exception reaches the caller
SegmentFormatRaises ==
    /\ Available
    /\ \E x \in SegInputs : text' = x
    /\ outcome' = [kind |-> "Exception", result |-> <<>>,
                   detail |-> "raises", logged |-> 0]
    /\ invoked' = 1
    /\ propagated' = TRUE
    /\ pc' = "called"
    /\ UNCHANGED <<out, HAS_UNDERTHESEA, vn_word_tokenize, imports, warnings>>
    /\ UNCHANGED <<flag, expanded, out2>> /\ UNCHANGED numVars

\* line 234: the capability raises an exception that is not an instance of
\* Exception; no handler matches, segment_words returns nothing and the
\* exception reaches the caller
SegmentPropagates ==
    /\ Available
    /\ \E x \in SegInputs : text' = x
    /\ outcome' = [kind |-> "BaseException", result |-> <<>>,
                   detail |-> "none", logged |-> 0]
    /\ invoked' = 1
    /\ propagated' = TRUE
    /\ pc' = "called"
    /\ UNCHANGED <<out, HAS_UNDERTHESEA, vn_word_tokenize, imports, warnings>>
    /\ UNCHANGED <<flag, expanded, out2>> /\ UNCHANGED numVars

Next ==
    \/ SegmentUnavailable
    \/ SegmentReturns
    \/ SegmentCaught
    \/ SegmentFormatRaises
    \/ SegmentPropagates

Spec == Init /\ [][Next]_vars

(***************************************************************************)
(* Claims about segment_words.                                             *)
(***************************************************************************)
\* C6: segment_words never lets a failure reach its caller: without the
\* capability it returns its argument; when the capability raises any
\* exception the exception is caught, one warning is logged and the
\* argument is returned; when the capability returns, its result is
\* returned.
C6_NeverPropagates ==
    pc = "called" =>
        /\ ~propagated
        /\ outcome.kind = "not called" => out = text /\ outcome.logged = 0
        /\ outcome.kind \in {"Exception", "BaseException"} =>
              out = text /\ outcome.logged = 1
        /\ outcome.kind = "returned" =>
              out = outcome.result /\ outcome.logged = 0

\* C9: the availability flag is decided at module load and never changes:
\* no call runs the import again, a failed call leaves the flag as it is,
\* one segment_words call invokes the capability at most once, and never
\* when the flag says it is unavailable.
C9_DecidedOnce ==
    [][ /\ HAS_UNDERTHESEA' = HAS_UNDERTHESEA
        /\ vn_word_tokenize' = vn_word_tokenize
        /\ imports' = 1
        /\ invoked' <= 1
        /\ ~HAS_UNDERTHESEA => invoked' = 0 ]_vars

\* a second failed call has been made with the capability still available
C9_Witness ==
    /\ pc = "called"
    /\ HAS_UNDERTHESEA
    /\ outcome.kind = "Exception"
    /\ invoked = 1
    /\ warnings = 2

====
